---- MODULE Spec2Model ----
(***************************************************************************)
(* Markdown documentation generator of the cobra command tree              *)
(* (doc/md_docs.go): extraction of the renderable record of a command,     *)
(* the fixed-layout and the template renderers, and the materialization    *)
(* of a whole command tree into one file per command.                      *)
(*                                                                         *)
(* Text is modelled as a sequence of one-character strings, so that the    *)
(* string operations of the code (Replace, Count, regexp Split, ordering)  *)
(* are computed on the characters.                                         *)
(***************************************************************************)
EXTENDS Integers, Sequences, FiniteSets, TLC

\* ------------------------------------------------------------------ bounds
\* Largest number of user commands of a tree (the root included).
MaxCmds == 4
\* Largest number of commands of the trees the render specifications start in.
MaxRenderCmds == 3
\* Largest number of flags a caller defines on the command of SpecFlags.
MaxFlags == 2
\* Largest number of tree walks started in one behaviour of SpecTree.
MaxWalks == 2

\* ------------------------------------------------------------------- text
NL == "\n"
SP == " "
DASH == "-"
USCORE == "_"

\* Byte value of the characters the model uses (Go compares strings bytewise).
Byte(c) ==
    CASE c = NL -> 10
      [] c = SP -> 32
      [] c = "#" -> 35
      [] c = DASH -> 45
      [] c = "." -> 46
      [] c = "_" -> 95
      [] c = "a" -> 97
      [] c = "b" -> 98
      [] c = "d" -> 100
      [] c = "e" -> 101
      [] c = "h" -> 104
      [] c = "l" -> 108
      [] c = "m" -> 109
      [] c = "p" -> 112
      [] c = "r" -> 114
      [] c = "s" -> 115
      [] c = "u" -> 117
      [] c = "x" -> 120
      [] OTHER -> 127

\* Go's s < t on strings: bytewise lexicographic order.
RECURSIVE StrLess(_, _)
StrLess(s, t) ==
    IF t = <<>> THEN FALSE
    ELSE IF s = <<>> THEN TRUE
    ELSE IF Byte(Head(s)) # Byte(Head(t)) THEN Byte(Head(s)) < Byte(Head(t))
    ELSE StrLess(Tail(s), Tail(t))

\* strings.Replace(s, old, new, -1) for a one-character old and new.
ReplaceAll(s, old, new) ==
    [i \in 1..Len(s) |-> IF s[i] = old THEN new ELSE s[i]]

Repeat(c, n) == [i \in 1..n |-> c]

\* s[from..] in Go's zero-based half-open slicing is SubSeq(s, from+1, to).
Slice(s, beg, end) == SubSeq(s, beg + 1, end)

HasPrefixAt(s, i, p) ==
    /\ i + Len(p) - 1 <= Len(s)
    /\ \A k \in 1..Len(p) : s[i + k - 1] = p[k]

\* strings.Count(s, sep): the number of non-overlapping instances of sep.
RECURSIVE CountFrom(_, _, _)
CountFrom(s, sep, i) ==
    IF i + Len(sep) - 1 > Len(s) THEN 0
    ELSE IF HasPrefixAt(s, i, sep) THEN 1 + CountFrom(s, sep, i + Len(sep))
    ELSE CountFrom(s, sep, i + 1)

Count(s, sep) == CountFrom(s, sep, 1)

RECURSIVE Concat(_)
Concat(ss) == IF ss = <<>> THEN <<>> ELSE Head(ss) \o Concat(Tail(ss))

\* -------------------------------------------------- regexp "\n *-" and Split
RECURSIVE SkipSpaces(_, _)
SkipSpaces(s, j) == IF j <= Len(s) /\ s[j] = SP THEN SkipSpaces(s, j + 1) ELSE j

\* regexp.MustCompile("\n *-").FindAllStringIndex(s, n) for n > 0: the
\* leftmost non-overlapping matches, at most n, as Go's <<start, end>> pairs
\* (zero-based, end exclusive), searched from the one-based position i.
RECURSIVE FindAllFrom(_, _, _)
FindAllFrom(s, i, n) ==
    IF n = 0 \/ i > Len(s) THEN <<>>
    ELSE IF s[i] = NL /\ SkipSpaces(s, i + 1) <= Len(s) /\ s[SkipSpaces(s, i + 1)] = DASH
         THEN <<<<i - 1, SkipSpaces(s, i + 1)>>>> \o FindAllFrom(s, SkipSpaces(s, i + 1) + 1, n - 1)
         ELSE FindAllFrom(s, i + 1, n)

\* The loop of regexp.Split over the matches: acc is the slice built so far,
\* beg and end are Go's variables of the same names.
RECURSIVE SplitLoop(_, _, _, _, _, _)
SplitLoop(s, n, matches, acc, beg, end) ==
    IF matches = <<>> \/ Len(acc) = n - 1
    THEN IF end # Len(s) THEN Append(acc, Slice(s, beg, Len(s))) ELSE acc
    ELSE SplitLoop(s, n, Tail(matches),
                   IF Head(matches)[2] # 0
                   THEN Append(acc, Slice(s, beg, Head(matches)[1]))
                   ELSE acc,
                   Head(matches)[2], Head(matches)[1])

\* flagSplitter.Split(s, n): n = 0 gives nil (no substring at all), an empty
\* s gives the one empty substring, otherwise at most n substrings, the last
\* one the unsplit remainder.
flagSplitterSplit(s, n) ==
    IF n = 0 THEN <<>>
    ELSE IF Len(s) = 0 THEN << <<>> >>
    ELSE SplitLoop(s, n, FindAllFrom(s, 1, n), <<>>, 0, 0)

\* numberOfFlags := strings.Count(flagString, "--")
numberOfFlags(flagString) == Count(flagString, <<DASH, DASH>>)

\* flagSlice[len(flagSlice)-1] on a slice without elements: index out of
\* range, the goroutine panics.
flagSlicePanics(flagString) ==
    flagSplitterSplit(flagString, numberOfFlags(flagString)) = <<>>

\* Mutant of restoreDash: the clipped '-' is not put back.
restoreDashNever(i, flag) == flag

\* if i > 0 { flagSlice[i] = "-" + flag }, i being Go's zero-based index.
restoreDash(i, flag) == IF i > 0 THEN <<DASH>> \o flag ELSE flag

\* The trailing empty segment is dropped, and the '-' the split clipped is put
\* back in front of every segment but the first.
flagSliceOf(flagString) ==
    LET split == flagSplitterSplit(flagString, numberOfFlags(flagString))
        kept == IF split[Len(split)] = <<>> THEN SubSeq(split, 1, Len(split) - 1)
                ELSE split
    IN [i \in 1..Len(kept) |-> restoreDash(i - 1, kept[i])]

\* ------------------------------------------------------------------ flags
\* A flag: its long name, its one-letter shorthand ("" for none), its usage
\* text, and whether it is hidden and persistent (inherited by descendants).
HelpName == <<"h", "e", "l", "p">>

\* The flags of set fs in the order of their names (pflag visits them sorted).
RECURSIVE SortFlags(_)
SortFlags(fs) ==
    IF fs = {} THEN <<>>
    ELSE LET f == CHOOSE g \in fs : \A h \in fs : h = g \/ ~StrLess(h.name, g.name)
         IN <<f>> \o SortFlags(fs \ {f})

\* The part of a flag's line before its usage text.
FlagHead(f) ==
    IF f.short # ""
    THEN <<SP, SP, DASH, f.short, ",", SP, DASH, DASH>> \o f.name
    ELSE <<SP, SP, SP, SP, SP, SP, DASH, DASH>> \o f.name

RECURSIVE MaxHead(_)
MaxHead(fl) ==
    IF fl = <<>> THEN 0
    ELSE IF Len(FlagHead(Head(fl))) + 1 > MaxHead(Tail(fl))
         THEN Len(FlagHead(Head(fl))) + 1
         ELSE MaxHead(Tail(fl))

\* HasAvailableFlags: some flag of the set is not hidden.
HasAvailableFlags(fs) == \E f \in fs : ~f.hidden

\* PrintDefaults: one line per flag that is not hidden, in name order, the
\* usage texts aligned in a column two spaces after the longest head.
PrintDefaults(fs) ==
    LET fl == SortFlags({f \in fs : ~f.hidden})
        maxlen == MaxHead(fl)
    IN Concat([i \in 1..Len(fl) |->
                  FlagHead(fl[i]) \o <<SP>> \o Repeat(SP, maxlen - Len(FlagHead(fl[i])))
                  \o <<SP>> \o fl[i].usage \o <<NL>>])

\* ----------------------------------------------------------- command tree
\* The commands of a tree are 1..MaxCmds, 1 being the root; MaxCmds + c is
\* the default help command that InitDefaultHelpCmd adds under command c.
NoCmd == 0
Cmds == 1..MaxCmds
HelpOf(c) == MaxCmds + c
AllCmds == 1..(2 * MaxCmds)

VARIABLES
    tree,       \* [AllCmds -> cobra.Command]: the fields of every command
    call,       \* the last call made on the package and its arguments
    cmdStruct,  \* the record the last call extracted (NoStruct if none)
    out,        \* the buffer the last call handed to its writer
    ret,        \* what the last call returned: "nil", an error, or "panic"
    tplDone,    \* commands a template render completed on with no reset since
    copied,     \* commands whose fixed render copied an ancestor's suppression
    stack,      \* the frames of the running GenMarkdownTreeCustom calls
    files,      \* the target directory: the files, each a name and a content
    events,     \* the file operations of the current walk, in order
    walkRet,    \* "idle", "running", or what the walk returned
    walks       \* number of walks started

vars == <<tree, call, cmdStruct, out, ret, tplDone, copied,
          stack, files, events, walkRet, walks>>

HasParent(t, c) == t[c].parent # NoCmd
Name(t, c) == t[c].name
HasSubCommands(t, c) == Len(t[c].commands) > 0

\* The ancestors of c, nearest first (the order VisitParents calls back in).
RECURSIVE Parents(_, _)
Parents(t, c) ==
    IF HasParent(t, c) THEN <<t[c].parent>> \o Parents(t, t[c].parent) ELSE <<>>

Range(f) == {f[i] : i \in DOMAIN f}

\* CommandPath: the names from the root down to c, joined by spaces.
RECURSIVE CommandPath(_, _)
CommandPath(t, c) ==
    IF HasParent(t, c) THEN CommandPath(t, t[c].parent) \o <<SP>> \o Name(t, c)
    ELSE Name(t, c)

\* IsAvailableCommand: not hidden, not the help command of its parent, and
\* runnable or with an available subcommand.
RECURSIVE IsAvailableCommand(_, _)
IsAvailableCommand(t, c) ==
    /\ ~t[c].Hidden
    /\ ~(HasParent(t, c) /\ t[t[c].parent].helpCommand = c)
    /\ \/ t[c].Runnable
       \/ \E i \in 1..Len(t[c].commands) : IsAvailableCommand(t, t[c].commands[i])

\* IsAdditionalHelpTopicCommand: neither runnable nor hidden, and every
\* subcommand (if any) is itself an additional help topic.
RECURSIVE IsAdditionalHelpTopicCommand(_, _)
IsAdditionalHelpTopicCommand(t, c) ==
    /\ ~t[c].Runnable
    /\ ~t[c].Hidden
    /\ \A i \in 1..Len(t[c].commands) : IsAdditionalHelpTopicCommand(t, t[c].commands[i])

\* The persistent flags c inherits: those of its ancestors that c does not
\* define itself.
InheritedFlags(t, c) ==
    {f \in UNION {t[a].flags : a \in Range(Parents(t, c))} :
        f.persistent /\ \A g \in t[c].flags : g.name # f.name}

NonInheritedFlags(t, c) == t[c].flags

\* UseLine: the path of the command, and " [flags]" when it has a flag that
\* is not hidden.
UseLine(t, c) ==
    CommandPath(t, c)
    \o (IF HasAvailableFlags(NonInheritedFlags(t, c) \cup InheritedFlags(t, c))
        THEN <<SP, "[", "f", "l", "a", "g", "s", "]">> ELSE <<>>)

\* InitDefaultHelpCmd: a command with subcommands gets its help command,
\* removed and added again at the end of its children.
InitDefaultHelpCmd(t, c) ==
    IF ~HasSubCommands(t, c) THEN t
    ELSE [t EXCEPT ![c].helpCommand = HelpOf(c),
                   ![c].commands = Append(SelectSeq(t[c].commands,
                                              LAMBDA x : x # HelpOf(c)), HelpOf(c))]

HelpFlag(t, c) ==
    [name |-> HelpName, short |-> "h",
     usage |-> <<"h", "e", "l", "p", SP, "f", "o", "r", SP>> \o Name(t, c),
     hidden |-> FALSE, persistent |-> FALSE]

\* InitDefaultHelpFlag: adds the flag "help" unless a flag of that name is
\* already defined on the command or inherited by it.
InitDefaultHelpFlag(t, c) ==
    IF \E f \in t[c].flags \cup InheritedFlags(t, c) : f.name = HelpName THEN t
    ELSE [t EXCEPT ![c].flags = @ \cup {HelpFlag(t, c)}]

\* sort.Sort(byName(children)): insertion of each child before the first one
\* whose name is greater; the slice of the command itself is sorted.
RECURSIVE InsertByName(_, _, _)
InsertByName(t, x, sorted) ==
    IF sorted = <<>> THEN <<x>>
    ELSE IF StrLess(Name(t, x), Name(t, Head(sorted))) THEN <<x>> \o sorted
    ELSE <<Head(sorted)>> \o InsertByName(t, x, Tail(sorted))

RECURSIVE byName(_, _)
byName(t, children) ==
    IF children = <<>> THEN <<>>
    ELSE InsertByName(t, children[Len(children)],
                      byName(t, SubSeq(children, 1, Len(children) - 1)))

\* ----------------------------------------------------------- link handlers
\* The link handlers callers pass: the identity of GenMarkdownTree and the
\* anchor handler of the template test.
LinkHandlers == {"identity", "anchor"}

RECURSIVE LastDot(_, _)
LastDot(s, i) == IF i = 0 THEN 0 ELSE IF s[i] = "." THEN i ELSE LastDot(s, i - 1)

\* strings.TrimSuffix(name, path.Ext(name))
TrimExt(s) == IF LastDot(s, Len(s)) = 0 THEN s ELSE SubSeq(s, 1, LastDot(s, Len(s)) - 1)

linkHandler(lh, link) ==
    IF lh = "identity" THEN link
    ELSE <<"#">> \o ReplaceAll(TrimExt(link), USCORE, DASH)

DotMd == <<".", "m", "d">>

\* link := name + ".md"; link = strings.Replace(link, " ", "_", -1)
mdFileName(path) == ReplaceAll(path \o DotMd, SP, USCORE)

\* One buf.WriteString call: the format (or literal) and its arguments.
\* In a format, [fence] stands for the three backquotes of a code fence.
Chunk(f, a) == [fmt |-> f, args |-> a]

\* "* [%s](%s)\t - %s\n" for the command of path cpath and description short
LinkLine(lh, cpath, short) ==
    Chunk("* [%s](%s)\t - %s\n", <<cpath, linkHandler(lh, mdFileName(cpath)), short>>)

\* ------------------------------------------------------ generateCmdTemplate
NoStruct == [none |-> TRUE]

\* Mutant of linkedChildren: the children are not sorted.
linkedChildrenUnsorted(t, c) ==
    SelectSeq(t[c].commands,
              LAMBDA ch : ~(~IsAvailableCommand(t, ch) \/ IsAdditionalHelpTopicCommand(t, ch)))

\* The children that get a link line: sorted by name, those skipped that are
\* not available or are additional help topics.
linkedChildren(t, c) ==
    SelectSeq(byName(t, t[c].commands),
              LAMBDA ch : ~(~IsAvailableCommand(t, ch) \/ IsAdditionalHelpTopicCommand(t, ch)))

relatedLinks(t, c, lh) ==
    LET rel == SelectSeq(t[c].related,
                   LAMBDA r : ~(~IsAvailableCommand(t, r) \/ IsAdditionalHelpTopicCommand(t, r)))
    IN [i \in 1..Len(rel) |-> LinkLine(lh, CommandPath(t, rel[i]), t[rel[i]].Short)]

\* The parent link: empty for the root, else the link line of the parent.
parentLink(t, c, lh) ==
    IF HasParent(t, c)
    THEN <<LinkLine(lh, CommandPath(t, t[c].parent), t[t[c].parent].Short)>>
    ELSE <<>>

\* flagString: the printed defaults of the non-inherited flags, empty when
\* none of them is displayable.
flagStringOf(t, c) ==
    IF HasAvailableFlags(NonInheritedFlags(t, c))
    THEN PrintDefaults(NonInheritedFlags(t, c)) ELSE <<>>

parentFlagStringOf(t, c) ==
    IF HasAvailableFlags(InheritedFlags(t, c))
    THEN PrintDefaults(InheritedFlags(t, c)) ELSE <<>>

\* The CmdTemplate of command c, flagString being the printed own flags,
\* children the sorted children and path the command path.
cmdTemplateOf(t, c, lh, flagString, children, path) ==
    [Name |-> path,
     Short |-> t[c].Short,
     Long |-> IF Len(t[c].Long) = 0 THEN t[c].Short ELSE t[c].Long,
     UseLine |-> UseLine(t, c),
     Example |-> t[c].Example,
     Flags |-> flagString,
     FlagSlice |-> flagSliceOf(flagString),
     ParentFlags |-> parentFlagStringOf(t, c),
     ParentLink |-> parentLink(t, c, lh),
     ChildrenLinks |-> [i \in 1..Len(children) |->
                          LinkLine(lh, path \o <<SP>> \o Name(t, children[i]),
                                   t[children[i]].Short)],
     RelatedLinks |-> relatedLinks(t, c, lh),
     CommandLink |-> linkHandler(lh, mdFileName(path)),
     HeaderScale |-> Len(Parents(t, c))]

\* generateCmdTemplate(cmd, linkHandler): panic tells whether the call
\* panicked (the index into the empty flagSlice); otherwise rec is the
\* CmdTemplate and tree the commands after the call, the children of cmd
\* sorted in place. The singleton sets bind flagString, the children that get
\* a link and the command path once.
generateCmdTemplate(t, c, lh) ==
    CHOOSE r \in
        {IF flagSlicePanics(flagString)
         THEN [panic |-> TRUE, tree |-> t, rec |-> NoStruct]
         ELSE [panic |-> FALSE,
               tree |-> [t EXCEPT ![c].commands = byName(t, t[c].commands)],
               rec |-> cmdTemplateOf(t, c, lh, flagString, children, path)] :
            flagString \in {flagStringOf(t, c)},
            children \in {linkedChildren(t, c)},
            path \in {CommandPath(t, c)}} : TRUE

\* ---------------------------------------------------------------- renderers
\* printOptions: the own flags block and the inherited flags block, each only
\* when its text is not empty.
printOptions(rec) ==
    (IF Len(rec.Flags) > 0
     THEN <<Chunk("### Options\n\n[fence]\n%s[fence]\n\n", <<rec.Flags>>)>> ELSE <<>>)
    \o (IF Len(rec.ParentFlags) > 0
        THEN <<Chunk("### Options inherited from parent commands\n\n[fence]\n%s[fence]\n\n",
                     <<rec.ParentFlags>>)>>
        ELSE <<>>)

FooterFmt == "###### Auto generated by spf13/cobra on %s\n"

\* cmd.VisitParents(...): the suppression flag of any ancestor that has it
\* set is copied to the command.
VisitParentsCopy(t, c) ==
    IF \E a \in Range(Parents(t, c)) : t[a].DisableAutoGenTag
    THEN [t EXCEPT ![c].DisableAutoGenTag = TRUE] ELSE t

\* The commands after the SEE ALSO section of GenMarkdownCustom: the flags of
\* the ancestors are visited only when there is a parent link.
afterSeeAlso(t, c, rec) ==
    IF (Len(rec.ParentLink) > 0 \/ Len(rec.ChildrenLinks) > 0) /\ Len(rec.ParentLink) > 0
    THEN VisitParentsCopy(t, c) ELSE t

\* The footer line, written unless the command's suppression flag is set.
footer(t, c, date) ==
    IF ~t[c].DisableAutoGenTag THEN <<Chunk(FooterFmt, <<date>>)>> ELSE <<>>

\* The buffer of GenMarkdownCustom up to the footer.
markdownBody(t, c, rec) ==
    <<Chunk("## %s\n\n", <<rec.Name>>),
      Chunk("%s\n\n", <<rec.Short>>),
      Chunk("### Synopsis\n\n", <<>>),
      Chunk("%s\n\n", <<rec.Long>>)>>
    \o (IF t[c].Runnable /\ Len(rec.UseLine) > 0
        THEN <<Chunk("[fence]\n%s\n[fence]\n\n", <<rec.UseLine>>)>> ELSE <<>>)
    \o (IF Len(rec.Example) > 0
        THEN <<Chunk("### Examples\n\n", <<>>), Chunk("[fence]\n%s\n[fence]\n\n", <<rec.Example>>)>>
        ELSE <<>>)
    \o printOptions(rec)
    \o (IF Len(rec.ParentLink) > 0 \/ Len(rec.ChildrenLinks) > 0
        THEN <<Chunk("### SEE ALSO\n\n", <<>>)>> \o rec.ParentLink \o rec.ChildrenLinks
             \o <<Chunk("\n", <<>>)>>
        ELSE <<>>)

\* The result of buf.WriteTo(w) on a writer that accepts (wOk) or fails.
WriteTo(wOk) == IF wOk THEN "nil" ELSE "write error"

\* cmd.InitDefaultHelpCmd(); cmd.InitDefaultHelpFlag()
initDefaults(t, c) == InitDefaultHelpFlag(InitDefaultHelpCmd(t, c), c)

\* Mutant of footerReads: the flag is read before the ancestors are visited.
footerReadsEarly(before, after) == before

\* The footer test reads cmd.DisableAutoGenTag after the SEE ALSO section,
\* that is after the ancestors' flags were copied.
footerReads(before, after) == after

\* ---------------------------------------------------------------- templates
\* A template is the sequence of the fields it prints; NoSuchField is a
\* reference that text/template fails on when it executes it.
Templates ==
    {<<"Name", "Short">>,
     <<"Name", "NoSuchField", "Short">>,
     <<"NoSuchField">>,
     <<"UseLine", "ChildrenLinks", "RelatedLinks", "NoSuchField">>}

\* What executing one field of the template appends to the buffer.
ExecField(rec, f) ==
    CASE f = "Name" -> <<Chunk("{{.Name}}", <<rec.Name>>)>>
      [] f = "Short" -> <<Chunk("{{.Short}}", <<rec.Short>>)>>
      [] f = "UseLine" -> <<Chunk("{{.UseLine}}", <<rec.UseLine>>)>>
      [] f = "ChildrenLinks" -> rec.ChildrenLinks
      [] f = "RelatedLinks" -> rec.RelatedLinks
      [] OTHER -> <<>>

\* template.Execute(buf, cmdStruct): the fields are written in order until
\* one fails; what was written before stays in the buffer.
RECURSIVE Execute(_, _)
Execute(tpl, rec) ==
    IF tpl = <<>> THEN [buf |-> <<>>, err |-> FALSE]
    ELSE IF Head(tpl) = "NoSuchField" THEN [buf |-> <<>>, err |-> TRUE]
    ELSE [buf |-> ExecField(rec, Head(tpl)) \o Execute(Tail(tpl), rec).buf,
          err |-> Execute(Tail(tpl), rec).err]

\* Mutant of writeToTemplate: a failed execution leaves nothing in the buffer.
writeToTemplateResets(tpl, rec) ==
    [buf |-> IF Execute(tpl, rec).err THEN <<>> ELSE Execute(tpl, rec).buf, ret |-> "nil"]

\* writeToTemplate executes the template into the buffer, logs the execution
\* error if there is one, and returns nil.
writeToTemplate(tpl, rec) == [buf |-> Execute(tpl, rec).buf, ret |-> "nil"]

\* GenMarkdownCustomTemplate drops the value of writeToTemplate and returns
\* the error of buf.WriteTo(w).
templateRet(tplRet, wOk) == WriteTo(wOk)

\* Mutant of suppressForTemplate: the flag is left as it is.
suppressForTemplateNot(t, c) == t

\* cmd.DisableAutoGenTag = true
suppressForTemplate(t, c) == [t EXCEPT ![c].DisableAutoGenTag = TRUE]

\* ------------------------------------------------------------ the commands
\* A command as its caller built it; the descriptions are fixed texts.
Cmd(par, nm, prof, kids, rel) ==
    [exists |-> TRUE, parent |-> par, name |-> nm,
     Short |-> <<"s", SP>> \o nm,
     Long |-> IF par = NoCmd THEN <<>> ELSE <<"l", SP>> \o nm,
     Example |-> IF par = NoCmd THEN <<"e">> ELSE <<>>,
     Hidden |-> prof.Hidden, Runnable |-> prof.Runnable,
     commands |-> kids, helpCommand |-> NoCmd,
     flags |-> prof.flags, related |-> rel, DisableAutoGenTag |-> FALSE]

\* A slot of the arena no command was built in.
Absent ==
    [exists |-> FALSE, parent |-> NoCmd, name |-> <<>>, Short |-> <<>>, Long |-> <<>>,
     Example |-> <<>>, Hidden |-> FALSE, Runnable |-> FALSE, commands |-> <<>>,
     helpCommand |-> NoCmd, flags |-> {}, related |-> <<>>, DisableAutoGenTag |-> FALSE]

\* The default help command of command par: runnable, named "help".
HelpCmd(par) ==
    [exists |-> FALSE, parent |-> par, name |-> HelpName,
     Short |-> <<"h", "e", "l", "p">>, Long |-> <<>>, Example |-> <<>>,
     Hidden |-> FALSE, Runnable |-> TRUE, commands |-> <<>>,
     helpCommand |-> NoCmd, flags |-> {}, related |-> <<>>, DisableAutoGenTag |-> FALSE]

\* The parent vectors of the trees of k commands: the parent of a command is
\* a command added before it.
Shapes(k) == {par \in [2..k -> 1..k] : \A n \in 2..k : par[n] < n}

\* The children of n in the order AddCommand added them.
RECURSIVE KidsFrom(_, _, _, _)
KidsFrom(par, n, m, k) ==
    IF m > k THEN <<>>
    ELSE (IF par[m] = n THEN <<m>> ELSE <<>>) \o KidsFrom(par, n, m + 1, k)

BuildTree(k, par, nm, prof) ==
    [n \in AllCmds |->
        IF n <= k
        THEN Cmd(IF n = 1 THEN NoCmd ELSE par[n], nm[n], prof[n],
                 KidsFrom(par, n, 2, k),
                 IF n = 2 /\ k >= 3 THEN <<3>> ELSE <<>>)
        ELSE IF n > MaxCmds /\ n - MaxCmds <= k THEN HelpCmd(n - MaxCmds)
        ELSE Absent]

\* Flags callers define.
PersistentFlag ==
    [name |-> <<"p">>, short |-> "p", usage |-> <<"u">>, hidden |-> FALSE, persistent |-> TRUE]

HiddenHelpFlag ==
    [name |-> HelpName, short |-> "h", usage |-> <<"u">>, hidden |-> TRUE, persistent |-> FALSE]

Profile(h, r, fl) == [Hidden |-> h, Runnable |-> r, flags |-> fl]

\* The kinds of command of the render specification: a plain runnable
\* command, a hidden one, a group (not runnable) with a persistent flag, and
\* a runnable command whose own help flag is hidden.
RenderProfiles ==
    {Profile(FALSE, TRUE, {}), Profile(TRUE, TRUE, {}),
     Profile(FALSE, FALSE, {PersistentFlag}), Profile(FALSE, TRUE, {HiddenHelpFlag})}

\* Names by position: siblings are added in an order that is not sorted, and
\* the fourth command is named as the second and the third joined by '_'.
PosName(n) ==
    CASE n = 1 -> <<"r">>
      [] n = 2 -> <<"b">>
      [] n = 3 -> <<"a">>
      [] n = 4 -> <<"b", USCORE, "a">>
      [] OTHER -> <<"x">>

Dates == {<<"1">>, <<"2">>}
NoDate == <<>>

NoCall ==
    [op |-> "none", cmd |-> NoCmd, lh |-> "identity", date |-> NoDate, wOk |-> TRUE,
     tpl |-> <<>>, again |-> "no", sup |-> FALSE]

RenderIdle ==
    /\ call = NoCall
    /\ cmdStruct = NoStruct
    /\ out = <<>>
    /\ ret = "nil"
    /\ tplDone = {}
    /\ copied = {}

WalkIdle ==
    /\ stack = <<>>
    /\ files = {}
    /\ events = <<>>
    /\ walkRet = "idle"
    /\ walks = 0

Plain == Profile(FALSE, TRUE, {})

\* The trees of k commands at most, named by position, in which at most one
\* command has a profile of profs other than the plain runnable one.
Trees(maxk, profs) ==
    UNION {UNION {{BuildTree(k, par, [n \in 1..k |-> PosName(n)], prof) :
                      prof \in {pr \in [1..k -> profs \cup {Plain}] :
                                   Cardinality({n \in 1..k : pr[n] # Plain}) <= 1}} :
                  par \in Shapes(k)} :
           k \in 1..maxk}

\* The trees with some of the commands' DisableAutoGenTag set by the caller
\* that built them.
WithDisabled(ts) ==
    {[n \in AllCmds |-> [t[n] EXCEPT !.DisableAutoGenTag = t[n].exists /\ n \in dis]] :
        t \in ts, dis \in SUBSET (1..MaxRenderCmds)}

Init ==
    /\ tree \in Trees(MaxRenderCmds, {Profile(FALSE, TRUE, {HiddenHelpFlag})})
    /\ RenderIdle
    /\ WalkIdle

\* ------------------------------------------------------------- render calls
\* GenMarkdownCustom(cmd, w, linkHandler), the day being date and w a writer
\* that accepts (wOk) or fails: the statements of the function in order, each
\* \E binding the value of one of them. A panic leaves the commands as the two
\* Init calls made them and hands nothing to the writer.
GenMarkdownCustom(c, lh, date, wOk) ==
    \E t1 \in {initDefaults(tree, c)} :
    \E g \in {generateCmdTemplate(t1, c, lh)} :
    \E t2 \in {IF g.panic THEN t1 ELSE afterSeeAlso(g.tree, c, g.rec)} :
        /\ tree' = t2
        /\ cmdStruct' = g.rec
        /\ out' = IF g.panic THEN <<>>
                  ELSE markdownBody(t2, c, g.rec) \o footer(footerReads(g.tree, t2), c, date)
        /\ ret' = IF g.panic THEN "panic" ELSE WriteTo(wOk)

\* GenMarkdownCustomTemplate(cmd, w, linkHandler, template)
GenMarkdownCustomTemplate(c, lh, tpl, wOk) ==
    \E t1 \in {initDefaults(tree, c)} :
    \E g \in {generateCmdTemplate(t1, c, lh)} :
    \E t2 \in {IF g.panic THEN t1 ELSE suppressForTemplate(g.tree, c)} :
    \E x \in {IF g.panic THEN [buf |-> <<>>, ret |-> "nil"] ELSE writeToTemplate(tpl, g.rec)} :
        /\ tree' = t2
        /\ cmdStruct' = g.rec
        /\ out' = IF g.panic THEN <<>> ELSE x.buf \o footer(t2, c, NoDate)
        /\ ret' = IF g.panic THEN "panic" ELSE templateRet(x.ret, wOk)

\* Whether the call about to be made repeats the last one: "first" when the
\* last one was the first render of the command, "yes" otherwise.
Again(c, lh, date) ==
    IF call.op = "fixed" /\ call.cmd = c /\ call.lh = lh /\ call.date = date
    THEN (IF call.again = "fresh" THEN "first" ELSE "yes")
    ELSE (IF initDefaults(tree, c) # tree THEN "fresh" ELSE "no")

\* Whether the suppression flag is set on c or on one of its ancestors.
Suppressed(t, c) ==
    t[c].DisableAutoGenTag \/ \E a \in Range(Parents(t, c)) : t[a].DisableAutoGenTag

\* A caller renders command c in the fixed layout.
FixedRender(c, lh, date, wOk) ==
    /\ tree[c].exists
    /\ GenMarkdownCustom(c, lh, date, wOk)
    /\ copied' = IF ~flagSlicePanics(flagStringOf(initDefaults(tree, c), c))
                    /\ \E a \in Range(Parents(tree, c)) : tree[a].DisableAutoGenTag
                 THEN copied \cup {c} ELSE copied
    /\ call' = [op |-> "fixed", cmd |-> c, lh |-> lh, date |-> date, wOk |-> wOk,
                tpl |-> <<>>, again |-> Again(c, lh, date), sup |-> Suppressed(tree, c)]
    /\ UNCHANGED <<tplDone, stack, files, events, walkRet, walks>>

\* A caller renders command c with a template.
TemplateRender(c, lh, tpl, wOk) ==
    /\ tree[c].exists
    /\ GenMarkdownCustomTemplate(c, lh, tpl, wOk)
    /\ tplDone' = IF ~flagSlicePanics(flagStringOf(initDefaults(tree, c), c))
                  THEN tplDone \cup {c} ELSE tplDone
    /\ call' = [op |-> "template", cmd |-> c, lh |-> lh, date |-> NoDate, wOk |-> wOk,
                tpl |-> tpl, again |-> "no", sup |-> FALSE]
    /\ UNCHANGED <<copied, stack, files, events, walkRet, walks>>

\* A caller assigns the exported field DisableAutoGenTag of command c.
SetDisableAutoGenTag(c, b) ==
    /\ tree[c].exists
    /\ tree[c].DisableAutoGenTag # b
    /\ tree' = [tree EXCEPT ![c].DisableAutoGenTag = b]
    /\ call' = [NoCall EXCEPT !.op = "set"]
    /\ cmdStruct' = NoStruct
    /\ out' = <<>>
    /\ ret' = "nil"
    /\ tplDone' = IF b THEN tplDone ELSE tplDone \ {c}
    /\ copied' = IF b THEN copied ELSE copied \ {c}
    /\ UNCHANGED <<stack, files, events, walkRet, walks>>

PlainTemplate == <<"Name", "Short">>
Today == <<"1">>

Next ==
    \/ \E c \in Cmds : FixedRender(c, "identity", Today, TRUE)
    \/ \E c \in Cmds : TemplateRender(c, "identity", PlainTemplate, TRUE)
    \/ \E c \in Cmds, b \in BOOLEAN : SetDisableAutoGenTag(c, b)

Spec == Init /\ [][Next]_vars

\* Fixed-layout renders, repeated or not, of trees whose suppression flags the
\* caller set when building them.
InitTwice ==
    /\ tree \in WithDisabled(Trees(MaxRenderCmds, {Profile(FALSE, FALSE, {PersistentFlag})}))
    /\ RenderIdle
    /\ WalkIdle

NextTwice ==
    \E c \in Cmds, lh \in LinkHandlers, date \in Dates : FixedRender(c, lh, date, TRUE)

SpecTwice == InitTwice /\ [][NextTwice]_vars

\* The calls of the template specification: every template with the identity
\* handler and a writer that accepts, the template that prints the links with
\* the anchor handler, and a sound and a failing template with a writer that
\* fails.
LinksTemplate == <<"UseLine", "ChildrenLinks", "RelatedLinks", "NoSuchField">>
FailingTemplate == <<"Name", "NoSuchField", "Short">>

TemplateCalls ==
    {[lh |-> "identity", tpl |-> tpl, wOk |-> TRUE] : tpl \in Templates}
    \cup {[lh |-> "anchor", tpl |-> LinksTemplate, wOk |-> TRUE]}
    \cup {[lh |-> "identity", tpl |-> tpl, wOk |-> FALSE] : tpl \in {PlainTemplate, FailingTemplate}}

InitTemplate ==
    /\ tree \in Trees(MaxRenderCmds, RenderProfiles)
    /\ RenderIdle
    /\ WalkIdle

NextTemplate ==
    \E c \in Cmds, a \in TemplateCalls : TemplateRender(c, a.lh, a.tpl, a.wOk)

SpecTemplate == InitTemplate /\ [][NextTemplate]_vars

\* ------------------------------------------------ properties of the renders
IsFooter(ch) == ch.fmt = FooterFmt
FooterCount(o) == Cardinality({i \in 1..Len(o) : IsFooter(o[i])})

\* C1: a fixed-layout render of a command whose suppression flag, or that of
\* one of its ancestors, is set at the time of the call writes no footer
\* line; any other fixed-layout render writes exactly one footer line, and it
\* is the last line of the output.
C1_FooterRule ==
    call.op = "fixed" =>
        IF call.sup THEN FooterCount(out) = 0
        ELSE FooterCount(out) = 1 /\ IsFooter(out[Len(out)])

\* The fixed-layout render of a command that is not suppressed panicked in
\* the extraction and wrote nothing.
C1_UnsuppressedPanic ==
    call.op = "fixed" /\ ~call.sup /\ ret = "panic" /\ out = <<>>

\* The footer rule of the fixed-layout renders that return.
FooterRuleWhenReturned ==
    (call.op = "fixed" /\ ret # "panic") =>
        IF call.sup THEN FooterCount(out) = 0
        ELSE FooterCount(out) = 1 /\ IsFooter(out[Len(out)])

\* C10: no render clears a suppression flag that is set; a command a template
\* render completed on, or whose fixed-layout render copied the flag of an
\* ancestor, keeps its flag set until the caller clears it; and a later
\* fixed-layout render of such a command, or of a descendant of a command a
\* template render completed on, writes no footer.
C10_SuppressionSticks ==
    /\ [][call'.op \in {"fixed", "template"} =>
             \A c \in AllCmds : tree[c].DisableAutoGenTag => tree'[c].DisableAutoGenTag]_vars
    /\ [](\A c \in tplDone \cup copied : tree[c].DisableAutoGenTag)
    /\ []((call.op = "fixed"
            /\ \/ call.cmd \in tplDone \cup copied
               \/ \E a \in Range(Parents(tree, call.cmd)) : a \in tplDone)
           => FooterCount(out) = 0)

\* A fixed-layout render returned without a footer for a command that copied
\* the flag of an ancestor earlier, after the caller cleared the flags of all
\* its ancestors, no template render having been made on the command.
C10_CopiedThenCleared ==
    /\ call.op = "fixed" /\ ret = "nil" /\ out # <<>>
    /\ call.cmd \in copied /\ call.cmd \notin tplDone
    /\ \A a \in Range(Parents(tree, call.cmd)) : ~tree[a].DisableAutoGenTag
    /\ FooterCount(out) = 0

\* C7: two fixed-layout renders of the same command in a row, with the same
\* link handler and on the same day, the caller changing nothing in between,
\* hand the same bytes to the writer; the first of the two may be the first
\* render ever made of the command.
C7_SameOutputTwice ==
    [][(/\ call.op = "fixed" /\ call'.op = "fixed"
        /\ call'.cmd = call.cmd /\ call'.lh = call.lh /\ call'.date = call.date)
       => out' = out]_vars

\* The repetition of the first render ever made of a command returned, the
\* first render having copied the suppression flag of an ancestor.
C7_RepeatedFirstRender ==
    /\ call.op = "fixed" /\ call.again = "first" /\ ret = "nil" /\ out # <<>>
    /\ call.cmd \in copied
    /\ FooterCount(out) = 0

\* The children of c that get a link: available, no additional help topic.
VisibleChildren(t, c) ==
    {ch \in Range(t[c].commands) :
        IsAvailableCommand(t, ch) /\ ~IsAdditionalHelpTopicCommand(t, ch)}

\* The name of the child a link line is about, path being the parent's path.
LinkedName(link, path) == SubSeq(link.args[1], Len(path) + 2, Len(link.args[1]))

\* C3: the children links of an extracted record are in the bytewise order of
\* the children's names, and there is exactly one link line per child that is
\* available and no additional help topic, and none for any other child.
C3_ChildrenLinks ==
    (call.op = "template" /\ ret # "panic") =>
        LET links == cmdStruct.ChildrenLinks
            path == CommandPath(tree, call.cmd)
        IN /\ Len(links) = Cardinality(VisibleChildren(tree, call.cmd))
           /\ \A ch \in VisibleChildren(tree, call.cmd) :
                 Cardinality({i \in 1..Len(links) :
                                 LinkedName(links[i], path) = Name(tree, ch)}) = 1
           /\ \A i \in 1..(Len(links) - 1) :
                 ~StrLess(LinkedName(links[i + 1], path), LinkedName(links[i], path))

\* A record with two children links was extracted for a command that also
\* has a child without a link, the linked children having been added to the
\* command in another order than that of their names.
C3_TwoLinksOneSkipped ==
    /\ call.op = "template" /\ ret # "panic"
    /\ Len(cmdStruct.ChildrenLinks) = 2
    /\ Len(tree[call.cmd].commands) > 2
    /\ cmdStruct.ChildrenLinks[1].args[1] = <<"r", SP, "a">>

\* The position of the first failing field of template tpl, or one past its
\* end when it has none.
FirstFailing(tpl) ==
    IF \E i \in 1..Len(tpl) : tpl[i] = "NoSuchField"
    THEN CHOOSE i \in 1..Len(tpl) :
            tpl[i] = "NoSuchField" /\ \A j \in 1..(i - 1) : tpl[j] # "NoSuchField"
    ELSE Len(tpl) + 1

\* C5: a template render whose template fails while executing returns what
\* the write to the output stream returned (no error when the write
\* succeeded, never the template's error), and hands to the stream what the
\* template had produced before it failed.
C5_TemplateErrorSwallowed ==
    (call.op = "template" /\ ret # "panic" /\ FirstFailing(call.tpl) <= Len(call.tpl)) =>
        /\ ret = (IF call.wOk THEN "nil" ELSE "write error")
        /\ out = Concat([i \in 1..(FirstFailing(call.tpl) - 1) |->
                            ExecField(cmdStruct, call.tpl[i])])

\* A template render returned nil although its template failed after it had
\* produced output.
C5_PartialOutputWritten ==
    /\ call.op = "template" /\ ret = "nil"
    /\ FirstFailing(call.tpl) <= Len(call.tpl)
    /\ FirstFailing(call.tpl) > 1
    /\ out # <<>>

\* ------------------------------------------------- the flags of one command
\* The flags a caller defines on the command: two plain ones, with and
\* without a shorthand, one whose usage text holds "--", a hidden one, and a
\* hidden flag named "help".
FlagPool ==
    {[name |-> <<"a">>, short |-> "a", usage |-> <<"u">>, hidden |-> FALSE, persistent |-> FALSE],
     [name |-> <<"b">>, short |-> "", usage |-> <<"u">>, hidden |-> FALSE, persistent |-> FALSE],
     [name |-> <<"d">>, short |-> "d", usage |-> <<"u", SP, DASH, DASH, "x">>,
      hidden |-> FALSE, persistent |-> FALSE],
     [name |-> <<"x">>, short |-> "", usage |-> <<"u">>, hidden |-> TRUE, persistent |-> FALSE],
     HiddenHelpFlag}

\* The flags of c the caller defined: all but the default help flag.
UserFlags(t, c) == t[c].flags \ {HelpFlag(t, c)}

\* A caller defines flag f on command c; defining a name twice panics in the
\* flag set, so a caller does not.
DefineFlag(c, f) ==
    /\ tree[c].exists
    /\ Cardinality(UserFlags(tree, c)) < MaxFlags
    /\ \A g \in tree[c].flags : g.name # f.name
    /\ tree' = [tree EXCEPT ![c].flags = @ \cup {f}]
    /\ call' = [NoCall EXCEPT !.op = "flag", !.cmd = c]
    /\ cmdStruct' = NoStruct
    /\ out' = <<>>
    /\ ret' = "nil"
    /\ UNCHANGED <<tplDone, copied, stack, files, events, walkRet, walks>>

\* One command without subcommands, its flags defined call by call.
InitFlags ==
    /\ tree = BuildTree(1, <<>>, [n \in 1..1 |-> PosName(n)], [n \in 1..1 |-> Plain])
    /\ RenderIdle
    /\ WalkIdle

NextFlags ==
    \/ \E f \in FlagPool : DefineFlag(1, f)
    \/ FixedRender(1, "identity", Today, TRUE)
    \/ \E tpl \in {PlainTemplate, FailingTemplate} : TemplateRender(1, "identity", tpl, TRUE)

SpecFlags == InitFlags /\ [][NextFlags]_vars

Rendered == call.op \in {"fixed", "template"}

\* The own flags of c that are displayed, in the order they are printed in.
VisibleFlags(t, c) == SortFlags({f \in NonInheritedFlags(t, c) : ~f.hidden})

\* C6: the extraction completes for every command; for a command none of
\* whose own flags is displayable it yields a record with the empty flags
\* text and a flagSlice without entries.
C6_ExtractionNeverFails ==
    Rendered =>
        /\ ret # "panic"
        /\ cmdStruct # NoStruct
        /\ VisibleFlags(tree, call.cmd) = <<>> =>
              cmdStruct.Flags = <<>> /\ cmdStruct.FlagSlice = <<>>

\* A render of a command none of whose own flags is displayable panicked in
\* the extraction: there is no record.
C6_NothingDisplayablePanics ==
    /\ Rendered
    /\ VisibleFlags(tree, call.cmd) = <<>>
    /\ ret = "panic"
    /\ cmdStruct = NoStruct

\* The number of matches of the boundary "\n *-" in s.
Boundaries(s) == Len(FindAllFrom(s, 1, Len(s)))

\* A flag's head without its indentation: "-a, --a" or "--b".
TrimmedHead(f) ==
    SubSeq(FlagHead(f), SkipSpaces(FlagHead(f), 1), Len(FlagHead(f)))

\* C9: when the printed text of the k >= 1 displayed own flags holds "--"
\* once per flag and the boundary only where the second and the later flags
\* start, flagSlice has k entries, one per flag in the printed order; the
\* first is the beginning of the text, indentation included, and each later
\* one starts with the '-' of its flag.
C9_OneEntryPerFlag ==
    (Rendered /\ ret # "panic") =>
        LET fl == VisibleFlags(tree, call.cmd)
            k == Len(fl)
            text == cmdStruct.Flags
            slice == cmdStruct.FlagSlice
        IN (k >= 1 /\ Count(text, <<DASH, DASH>>) = k /\ Boundaries(text) = k - 1) =>
              /\ Len(slice) = k
              /\ slice[1] = SubSeq(text, 1, Len(slice[1]))
              /\ HasPrefixAt(slice[1], 1, FlagHead(fl[1]))
              /\ \A i \in 2..k :
                    /\ slice[i][1] = DASH
                    /\ HasPrefixAt(slice[i], 1, TrimmedHead(fl[i]))

\* The record of a command with three displayed own flags, of which the
\* second has no shorthand, was extracted: flagSlice has three entries.
C9_ThreeFlags ==
    /\ Rendered /\ ret # "panic"
    /\ Len(VisibleFlags(tree, call.cmd)) = 3
    /\ Count(cmdStruct.Flags, <<DASH, DASH>>) = 3
    /\ Boundaries(cmdStruct.Flags) = 2
    /\ VisibleFlags(tree, call.cmd)[2].short = ""
    /\ Len(cmdStruct.FlagSlice) = 3

\* ------------------------------------------------------ GenMarkdownTreeCustom
\* Mutant of walkOrder: the children are walked last to first.
walkOrderReversed(children) ==
    [i \in 1..Len(children) |-> children[Len(children) + 1 - i]]

\* for _, c := range cmd.Commands(): the children in the order of the slice
\* at the time the loop starts.
walkOrder(children) == children

\* Mutant of walkSkips: only the additional help topics are skipped.
walkSkipsHelpTopics(t, c) == IsAdditionalHelpTopicCommand(t, c)

\* The children the loop passes over.
walkSkips(t, c) == ~IsAvailableCommand(t, c) \/ IsAdditionalHelpTopicCommand(t, c)

\* Mutant of basename: the spaces of the path are kept.
basenameKeepsSpaces(t, c) == CommandPath(t, c) \o DotMd

\* basename := strings.Replace(cmd.CommandPath(), " ", "_", -1) + ".md"
basename(t, c) == ReplaceAll(CommandPath(t, c), SP, USCORE) \o DotMd

\* What filePrepender(filename) gives: a header naming the file.
filePrepender(filename) == <<Chunk("header of %s\n", <<filename>>)>>

\* The frame of a call of GenMarkdownTreeCustom on c: the children it ranges
\* over, the index of the next one, and how far the call got.
Frame(t, c) == [cmd |-> c, kids |-> walkOrder(t[c].commands), i |-> 1, pc |-> "loop"]

Top == stack[Len(stack)]
Pop(st) == SubSeq(st, 1, Len(st) - 1)

\* Mutant of Unwind: the caller of the failed call goes on with its loop.
UnwindTopOnly(st) == Pop(st)

\* The frames left when the innermost call returns an error: each caller
\* returns the error of the call it made, so none is left.
Unwind(st) == <<>>

\* The directory after os.Create(filename), and after content was written to
\* the file of that name.
Created(dir, filename) ==
    {f \in dir : f.name # filename} \cup {[name |-> filename, content |-> <<>>]}

Written(dir, filename, content) ==
    {IF f.name = filename THEN [f EXCEPT !.content = @ \o content] ELSE f : f \in dir}

ContentOf(dir, filename) == (CHOOSE f \in dir : f.name = filename).content

Event(o, c, filename, content) ==
    [op |-> o, cmd |-> c, file |-> filename, content |-> content]

\* A caller starts GenMarkdownTreeCustom on command r with a new, empty
\* directory.
WalkStart(r) ==
    /\ walkRet # "running"
    /\ walks < MaxWalks
    /\ tree[r].exists
    /\ stack' = <<Frame(tree, r)>>
    /\ files' = {}
    /\ events' = <<>>
    /\ walkRet' = "running"
    /\ walks' = walks + 1
    /\ call' = [NoCall EXCEPT !.op = "walk", !.cmd = r]
    /\ cmdStruct' = NoStruct
    /\ out' = <<>>
    /\ ret' = "nil"
    /\ UNCHANGED <<tree, tplDone, copied>>

\* One iteration of the loop over the children: the child is passed over, or
\* GenMarkdownTreeCustom is called on it.
WalkChild ==
    /\ walkRet = "running"
    /\ Top.pc = "loop"
    /\ Top.i <= Len(Top.kids)
    /\ stack' = IF walkSkips(tree, Top.kids[Top.i])
                THEN [stack EXCEPT ![Len(stack)].i = @ + 1]
                ELSE Append([stack EXCEPT ![Len(stack)].i = @ + 1],
                            Frame(tree, Top.kids[Top.i]))
    /\ UNCHANGED <<tree, call, cmdStruct, out, ret, tplDone, copied,
                   files, events, walkRet, walks>>

\* The call leaves with error err.
ReturnErr(err) ==
    /\ stack' = Unwind(stack)
    /\ walkRet' = IF Unwind(stack) = <<>> THEN err ELSE "running"

\* The call leaves with nil.
ReturnNil ==
    /\ stack' = Pop(stack)
    /\ walkRet' = IF Pop(stack) = <<>> THEN "nil" ELSE "running"

\* os.Create(filename) after the loop: the file is created or truncated, or
\* the call returns the error.
WalkCreate(ok) ==
    /\ walkRet = "running"
    /\ Top.pc = "loop"
    /\ Top.i > Len(Top.kids)
    /\ \E filename \in {basename(tree, Top.cmd)} :
          IF ok
          THEN /\ files' = Created(files, filename)
               /\ events' = Append(events, Event("create", Top.cmd, filename, <<>>))
               /\ stack' = [stack EXCEPT ![Len(stack)].pc = "created"]
               /\ UNCHANGED walkRet
          ELSE /\ events' = Append(events, Event("create failed", Top.cmd, filename, <<>>))
               /\ ReturnErr("create error")
               /\ UNCHANGED files
    /\ UNCHANGED <<tree, call, cmdStruct, out, ret, tplDone, copied, walks>>

\* io.WriteString(f, filePrepender(filename))
WalkPrepend(ok) ==
    /\ walkRet = "running"
    /\ Top.pc = "created"
    /\ \E filename \in {basename(tree, Top.cmd)} :
          IF ok
          THEN /\ files' = Written(files, filename, filePrepender(filename))
               /\ stack' = [stack EXCEPT ![Len(stack)].pc = "prepended"]
               /\ UNCHANGED <<events, walkRet>>
          ELSE /\ events' = Append(events, Event("write failed", Top.cmd, filename, <<>>))
               /\ ReturnErr("write error")
               /\ UNCHANGED files
    /\ UNCHANGED <<tree, call, cmdStruct, out, ret, tplDone, copied, walks>>

\* GenMarkdownCustom(cmd, f, linkHandler) with the identity handler: the page
\* is written and the call returns nil, or the write fails and the call
\* returns the error, or the render panics and the panic ends the walk.
WalkRender(wOk) ==
    /\ walkRet = "running"
    /\ Top.pc = "prepended"
    /\ GenMarkdownCustom(Top.cmd, "identity", Today, wOk)
    /\ \E filename \in {basename(tree, Top.cmd)} :
          CASE ret' = "panic" ->
                  /\ stack' = <<>>
                  /\ walkRet' = "panic"
                  /\ UNCHANGED <<files, events>>
            [] ret' = "nil" ->
                  /\ files' = Written(files, filename, out')
                  /\ events' = Append(events, Event("written", Top.cmd, filename,
                                                    ContentOf(files, filename) \o out'))
                  /\ ReturnNil
            [] OTHER ->
                  /\ events' = Append(events, Event("write failed", Top.cmd, filename, <<>>))
                  /\ ReturnErr(ret')
                  /\ UNCHANGED files
    /\ UNCHANGED <<call, tplDone, copied, walks>>

\* The kinds of command of the tree specification: hidden, a group that is
\* not runnable, and a command whose own help flag is hidden.
TreeProfiles ==
    {Profile(TRUE, TRUE, {}), Profile(FALSE, FALSE, {}), Profile(FALSE, TRUE, {HiddenHelpFlag})}

InitTree ==
    /\ tree \in Trees(MaxCmds, TreeProfiles)
    /\ RenderIdle
    /\ WalkIdle

NextTree ==
    \/ \E r \in Cmds : WalkStart(r)
    \/ WalkChild
    \/ \E ok \in BOOLEAN : WalkCreate(ok)
    \/ \E ok \in BOOLEAN : WalkPrepend(ok)
    \/ \E wOk \in BOOLEAN : WalkRender(wOk)

SpecTree == InitTree /\ [][NextTree]_vars

\* --------------------------------------------- properties of the tree walk
\* The commands a walk started on r visits: r, and the commands reached from
\* it through children that are available and no additional help topic.
RECURSIVE Visited(_, _)
Visited(t, r) == {r} \cup UNION {Visited(t, ch) : ch \in VisibleChildren(t, r)}

\* The file name of command n: its path, ".md" added, spaces made '_'.
PageName(t, n) ==
    [i \in 1..(Len(CommandPath(t, n)) + 3) |->
        IF i > Len(CommandPath(t, n)) THEN DotMd[i - Len(CommandPath(t, n))]
        ELSE IF CommandPath(t, n)[i] = SP THEN USCORE ELSE CommandPath(t, n)[i]]

FileNames == {f.name : f \in files}

\* C2: a walk that returned nil left exactly one file per visited command,
\* named by the command's path, and no other file.
C2_OneFilePerNode ==
    walkRet = "nil" =>
        /\ Cardinality(files) = Cardinality(Visited(tree, call.cmd))
        /\ \A n \in Visited(tree, call.cmd) : PageName(tree, n) \in FileNames
        /\ \A f \in files : \E n \in Visited(tree, call.cmd) : f.name = PageName(tree, n)

\* C2, amended: a walk that returned nil left exactly the files named by the
\* visited commands, one file per name and no other file; visited commands
\* whose paths give the same name share the file, and every file holds what
\* the last command written under its name wrote.
C2_OneFilePerName ==
    walkRet = "nil" =>
        /\ FileNames = {PageName(tree, n) : n \in Visited(tree, call.cmd)}
        /\ Cardinality(files) = Cardinality(FileNames)
        /\ \A f \in files :
              \E i \in 1..Len(events) :
                 /\ events[i].op = "written"
                 /\ events[i].file = f.name
                 /\ events[i].content = f.content
                 /\ \A j \in (i + 1)..Len(events) : events[j].file # f.name

\* A walk returned nil after visiting two commands of the same file name.
C2_SharedFile ==
    /\ walkRet = "nil"
    /\ \E m, n \in Visited(tree, call.cmd) :
          m # n /\ PageName(tree, m) = PageName(tree, n)
    /\ Cardinality(files) < Cardinality(Visited(tree, call.cmd))

Failure(e) == e.op \in {"create failed", "write failed"}

\* C4: when creating or writing the file of a command fails, the walk
\* returns that error and does nothing more: the failure is the last file
\* operation of the walk and no call is left running; every file written
\* before is still in the directory, with what was written unless the
\* failing command created a file of the same name after it.
C4_FailureAborts ==
    \A i \in 1..Len(events) :
        Failure(events[i]) =>
            /\ i = Len(events)
            /\ stack = <<>>
            /\ walkRet = (IF events[i].op = "create failed" THEN "create error"
                          ELSE "write error")
            /\ \A j \in 1..(i - 1) :
                  events[j].op = "written" =>
                     /\ events[j].file \in FileNames
                     /\ (\A k \in (j + 1)..i : events[k].file # events[j].file)
                        => [name |-> events[j].file, content |-> events[j].content] \in files

\* The write of a command's page failed after the file of another command
\* had been written, and the walk returned the error without visiting the
\* commands that were left.
C4_FailedMidWalk ==
    /\ Len(events) >= 3
    /\ events[Len(events)].op = "write failed"
    /\ \E j \in 1..Len(events) : events[j].op = "written"
    /\ walkRet = "write error"
    /\ \E n \in Visited(tree, call.cmd) :
          \A i \in 1..Len(events) : events[i].cmd # n

\* C8: the files are written in post-order: when the file of a command is
\* created, the file of every command visited below it has been written;
\* and the subtrees of the children of a command whose call is running have
\* been walked one after the other in the order of its child list.
C8_PostOrder ==
    /\ \A i \in 1..Len(events) :
          events[i].op \in {"create", "create failed"} =>
             \A d \in Visited(tree, events[i].cmd) \ {events[i].cmd} :
                \E j \in 1..(i - 1) : events[j].op = "written" /\ events[j].cmd = d
    /\ \A l \in 1..Len(stack) :
          LET ks == tree[stack[l].cmd].commands
          IN \A a, b \in 1..Len(ks) :
                (a < b /\ ks[a] \in VisibleChildren(tree, stack[l].cmd)
                       /\ ks[b] \in VisibleChildren(tree, stack[l].cmd)) =>
                   \A i, j \in 1..Len(events) :
                      (events[i].cmd \in Visited(tree, ks[a])
                       /\ events[j].cmd \in Visited(tree, ks[b])) => i < j

\* The call on the root is about to create its file, two of its children
\* and a grandchild having been written.
C8_SubtreesDone ==
    /\ Len(stack) = 1
    /\ stack[1].pc = "loop"
    /\ stack[1].i > Len(stack[1].kids)
    /\ Cardinality(VisibleChildren(tree, stack[1].cmd)) = 2
    /\ Cardinality(Visited(tree, stack[1].cmd)) = 4
    /\ Len(events) = 6

\* A link line, and the file names the link lines of content point to.
IsLink(ch) == ch.fmt = "* [%s](%s)\t - %s\n"
LinkTargets(content) == {content[i].args[2] : i \in {j \in 1..Len(content) : IsLink(content[j])}}

\* C11: after a walk started on the root with the identity handler returned
\* nil, every parent link and every child link of every page the walk wrote,
\* whether the page is still in its file or was overwritten, names a file
\* the walk wrote into the directory; the help command a render added to a
\* command after the walk had ranged over its children has no link.
C11_LinksNameWrittenFiles ==
    (walkRet = "nil" /\ call.cmd = 1) =>
        /\ \A f \in files : LinkTargets(f.content) \subseteq FileNames
        /\ \A i \in 1..Len(events) :
              events[i].op = "written" =>
                 /\ LinkTargets(events[i].content) \subseteq FileNames
                 /\ \A target \in LinkTargets(events[i].content) :
                       \E j \in 1..Len(events) :
                          events[j].op = "written" /\ events[j].file = target

\* A walk of the root returned nil; a page holds both a parent link and a
\* child link, and the renders of the walk added help commands, on the root
\* among others, that no page links to.
C11_LinkedPagesAndHelp ==
    /\ walkRet = "nil" /\ call.cmd = 1 /\ walks = 1
    /\ \E f \in files : Cardinality(LinkTargets(f.content)) >= 2
    /\ tree[1].helpCommand = HelpOf(1)
    /\ HelpOf(1) \in Range(tree[1].commands)
    /\ PageName(tree, HelpOf(1)) \notin UNION {LinkTargets(f.content) : f \in files}

====
